---- MODULE Spec2Model ----
(***************************************************************************)
(* Model of scripts/sync_fareharbor_events.mjs: the FareHarbor -> events   *)
(* .json sync, and of cloudflare-worker/src/index.js, the webhook worker.  *)
(* Four state machines share this module:                                  *)
(*   Spec      one or two runs of main() against a fixed upstream site     *)
(*             and a persisted events document;                            *)
(*   SpecTime  the time/date normalizer (parseEventTimeRange,              *)
(*             parseStartTimeAndDuration, to24Hour, ymdAndTimeToIsoLocal)  *)
(*             applied to a page text drawn from a bounded set;            *)
(*   SpecHook  one request handled by the worker's fetch();                *)
(*   SpecExtract  extractTitleFromHtml and extractBestImageFromHtml on one *)
(*             item page.                                                  *)
(* Strings the code compares or slices (timestamps, dates) are sequences   *)
(* of character codes; page text is a sequence of lexical tokens.          *)
(***************************************************************************)
EXTENDS Integers, Sequences, FiniteSets, TLC

VARIABLES
    \* ---- run configuration (process.argv / process.env, fixed per run)
    SHOULD_WRITE, MERGE_EXISTING, ALLOW_EMPTY_WRITE, USE_PLAYWRIGHT,
    \* ---- environment of the run
    today,          \* day of month of "now" in TIME_ZONE
    listing,        \* what the listing page yields (static tier, browser tier)
    doc,            \* the persisted document EVENTS_FILE
    \* ---- main()'s locals and position
    pc, uniqueItemUrls, i, keep, scraped, byKey, out, exitCode, written,
    \* ---- history of the run(s)
    run, docPre, firstOut, firstScraped, firstItems,
    \* ---- what the run did to its surroundings
    reads,          \* fs.readFile calls of this run
    sessions,       \* browsers launched by withPlaywright and not (yet) closed
    lastItem,       \* how the last iteration of processItems went
    \* ---- time normalizer state machine
    tpc, text, dateLabel, rangeRes, durRes, startIso, endIso,
    \* ---- the webhook worker: one request to fetch(request, env, ctx)
    wpc, request, env, response, dispatch,
    \* ---- static-tier extraction from one item page (lines 649-650)
    epc, html, pageTitle, pageThumbnail

runVars == <<SHOULD_WRITE, MERGE_EXISTING, ALLOW_EMPTY_WRITE, USE_PLAYWRIGHT,
             today, listing, doc, pc, uniqueItemUrls, i, keep, scraped, byKey,
             out, exitCode, written, run, docPre, firstOut, firstScraped,
             firstItems, reads, sessions, lastItem>>
timeVars == <<tpc, text, dateLabel, rangeRes, durRes, startIso, endIso>>
hookVars == <<wpc, request, env, response, dispatch>>
extractVars == <<epc, html, pageTitle, pageThumbnail>>
vars == <<runVars, timeVars, hookVars, extractVars>>
\* What a run of main(), the normalizer, the worker and the extraction leave
\* alone.
besidesRun == <<timeVars, hookVars, extractVars>>
besidesTime == <<runVars, hookVars, extractVars>>
besidesHook == <<runVars, timeVars, extractVars>>
besidesExtract == <<runVars, timeVars, hookVars>>

\* ------------------------------------------------------------------ bounds
\* Longest page text (in tokens) after the optional preamble.
MaxLen == 4
\* Days of the month the model knows; "today" has a yesterday and a tomorrow.
MaxDay == 3
\* Most items the listing page shows at once.
MaxItems == 2
\* Most events in the persisted document before the first run.
MaxDoc == 2

Days == 1..MaxDay

\* ---------------------------------------------------------------- strings
\* A string is a sequence of character codes.
Digit(n) == 48 + n

\* String(n).padStart(2, "0") for 0 <= n <= 99.
Pad2(n) == <<Digit((n \div 10) % 10), Digit(n % 10)>>

\* String(n).padStart(4, "0") for 0 <= n <= 9999.
Pad4(n) == <<Digit((n \div 1000) % 10), Digit((n \div 100) % 10),
             Digit((n \div 10) % 10), Digit(n % 10)>>

Min(a, b) == IF a <= b THEN a ELSE b

\* s.slice(0, n)
Slice0(s, n) == SubSeq(s, 1, Min(n, Len(s)))

\* a < b, a = b, a > b on strings by code unit, as JavaScript's relational
\* operators compare strings: -1, 0, 1.
RECURSIVE CodeUnitCompare(_, _)
CodeUnitCompare(a, b) ==
    IF a = <<>> /\ b = <<>> THEN 0
    ELSE IF a = <<>> THEN -1
    ELSE IF b = <<>> THEN 1
    ELSE IF Head(a) < Head(b) THEN -1
    ELSE IF Head(a) > Head(b) THEN 1
    ELSE CodeUnitCompare(Tail(a), Tail(b))

\* Collation class of a character under the default locale collation:
\* punctuation sorts before digits, digits before letters.
CollationWeight(c) ==
    IF c >= 48 /\ c <= 57 THEN 1000 + c
    ELSE IF (c >= 65 /\ c <= 90) THEN 2000 + c
    ELSE IF (c >= 97 /\ c <= 122) THEN 2000 + (c - 32)
    ELSE c

\* String.prototype.localeCompare: -1, 0, 1.
RECURSIVE localeCompare(_, _)
localeCompare(a, b) ==
    IF a = <<>> /\ b = <<>> THEN 0
    ELSE IF a = <<>> THEN -1
    ELSE IF b = <<>> THEN 1
    ELSE IF CollationWeight(Head(a)) < CollationWeight(Head(b)) THEN -1
    ELSE IF CollationWeight(Head(a)) > CollationWeight(Head(b)) THEN 1
    ELSE localeCompare(Tail(a), Tail(b))

\* ------------------------------------------------------------- page text
\* A page text is a sequence of tokens; adjacent tokens are separated by
\* whitespace only.
\*   num      a run of one or two digits, optionally followed by ":dd"
\*            (m = -1 when there is no minute part)
\*   ap       an AM/PM marker as written
\*   conn     "-", en dash, em dash or "to"
\*   hours    the word "Hour" / "Hours"
\*   minutes  the word "Minute" / "Minutes"
\*   word     any other text without digits
Num(h, m) == [k |-> "num", h |-> h, m |-> m, s |-> ""]
Ap(s) == [k |-> "ap", h |-> 0, m |-> -1, s |-> s]
Conn == [k |-> "conn", h |-> 0, m |-> -1, s |-> "-"]
HoursWord == [k |-> "hours", h |-> 0, m |-> -1, s |-> "Hours"]
MinutesWord == [k |-> "minutes", h |-> 0, m |-> -1, s |-> "Minutes"]
Word == [k |-> "word", h |-> 0, m |-> -1, s |-> "x"]

\* Num(13, 75) is a clock the patterns accept as they accept any other:
\* (\d{1,2}) for the hour and (\d{2}) for the minutes.
Tokens ==
    { Num(6, -1), Num(10, -1), Num(11, 30), Num(2, -1), Num(13, 75),
      Ap("a.m."), Ap("PM"), Conn, HoursWord, MinutesWord, Word }

RECURSIVE SeqsUpTo(_, _)
SeqsUpTo(S, n) ==
    IF n = 0 THEN { <<>> }
    ELSE LET shorter == SeqsUpTo(S, n - 1)
         IN  shorter \cup { Append(s, t) : s \in {x \in shorter : Len(x) = n - 1}, t \in S }

\* A page may open with an age range such as "Ages 5-12".
AgesPreamble == << Word, Num(5, -1), Conn, Num(12, -1), Word >>

Texts == { p \o s : p \in { <<>>, AgesPreamble }, s \in SeqsUpTo(Tokens, MaxLen) }

\* ------------------------------------------------------------ normalizer
NoClock == [h |-> 0, m |-> 0, ap |-> "none"]
Null == [ok |-> FALSE, start |-> NoClock, end |-> NoClock]

\* normAp: upper-case, drop the periods, accept only AM and PM.
normAp(raw) ==
    CASE raw = "AM" -> "AM"
      [] raw = "am" -> "AM"
      [] raw = "a.m." -> "AM"
      [] raw = "A.M." -> "AM"
      [] raw = "PM" -> "PM"
      [] raw = "pm" -> "PM"
      [] raw = "p.m." -> "PM"
      [] raw = "P.M." -> "PM"
      [] OTHER -> "none"

Kind(t, p) == IF p >= 1 /\ p <= Len(t) THEN t[p].k ELSE "end"

\* Whether rangeRe matches with its first clock time at token p:
\* num [ap] conn num [ap].
RangeAt(t, p) ==
    /\ Kind(t, p) = "num"
    /\ LET q == IF Kind(t, p + 1) = "ap" THEN p + 2 ELSE p + 1
       IN  Kind(t, q) = "conn" /\ Kind(t, q + 1) = "num"

\* The captures of rangeRe at p: sh, sm, sapRaw, eh, em, eapRaw
\* ("" for a group that did not take part).
RangeGroups(t, p) ==
    LET hasSap == Kind(t, p + 1) = "ap"
        q == IF hasSap THEN p + 2 ELSE p + 1
        hasEap == Kind(t, q + 2) = "ap"
    IN  [sh |-> t[p].h, sm |-> t[p].m,
         sapRaw |-> IF hasSap THEN t[p + 1].s ELSE "",
         eh |-> t[q + 1].h, em |-> t[q + 1].m,
         eapRaw |-> IF hasEap THEN t[q + 2].s ELSE ""]

\* text.match(rangeRe): the leftmost match, or 0.
FirstRangeMatch(t) ==
    IF \E p \in 1..Len(t) : RangeAt(t, p)
    THEN CHOOSE p \in 1..Len(t) : RangeAt(t, p) /\ \A r \in 1..(p - 1) : ~RangeAt(t, r)
    ELSE 0

\* Number(sm || "0")
MinuteOf(m) == IF m = -1 THEN 0 ELSE m

\* The range parser without the inference of a missing marker.
parseEventTimeRangeNoInference(t) ==
    LET p == FirstRangeMatch(t)
    IN  IF t = <<>> \/ p = 0 THEN Null
        ELSE LET g == RangeGroups(t, p)
                 sap == normAp(g.sapRaw)
                 eap == normAp(g.eapRaw)
             IN  IF sap = "none" \/ eap = "none" THEN Null
                 ELSE [ok |-> TRUE,
                       start |-> [h |-> g.sh, m |-> MinuteOf(g.sm), ap |-> sap],
                       end |-> [h |-> g.eh, m |-> MinuteOf(g.em), ap |-> eap]]

parseEventTimeRange(t) ==
    LET p == FirstRangeMatch(t)
    IN  IF t = <<>> \/ p = 0 THEN Null
        ELSE LET g == RangeGroups(t, p)
                 sap0 == normAp(g.sapRaw)
                 eap0 == normAp(g.eapRaw)
                 \* Infer AM/PM if one side omits it.
                 sap == IF sap0 = "none" /\ eap0 # "none" THEN eap0 ELSE sap0
                 eap == IF eap0 = "none" /\ sap # "none" THEN sap ELSE eap0
             IN  IF sap = "none" \/ eap = "none" THEN Null
                 ELSE [ok |-> TRUE,
                       start |-> [h |-> g.sh, m |-> MinuteOf(g.sm), ap |-> sap],
                       end |-> [h |-> g.eh, m |-> MinuteOf(g.em), ap |-> eap]]

to24Hour(c) ==
    LET hour == c.h % 12
    IN  [hour |-> IF c.ap = "PM" THEN hour + 12 ELSE hour, minute |-> c.m]

\* The leftmost p with t[p] a clock time directly followed by an AM/PM marker.
FirstStartMatch(t) ==
    LET At(p) == Kind(t, p) = "num" /\ Kind(t, p + 1) = "ap"
    IN  IF \E p \in 1..Len(t) : At(p)
        THEN CHOOSE p \in 1..Len(t) : At(p) /\ \A r \in 1..(p - 1) : ~At(r)
        ELSE 0

\* The digits directly before a unit word: the minute part when the number is
\* written "h:mm", the number itself otherwise.
DigitsBeforeUnit(tok) == IF tok.m = -1 THEN tok.h ELSE tok.m

\* The first number directly followed by the unit word, or 0 when there is none.
FirstAmount(t, unit) ==
    LET At(p) == Kind(t, p) = "num" /\ Kind(t, p + 1) = unit
    IN  IF \E p \in 1..Len(t) : At(p)
        THEN DigitsBeforeUnit(t[CHOOSE p \in 1..Len(t) : At(p) /\ \A r \in 1..(p - 1) : ~At(r)])
        ELSE 0

durationMinutes(t) == FirstAmount(t, "hours") * 60 + FirstAmount(t, "minutes")

\* The end total without the wrap at midnight.
endTotalNoWrap(startTotal, duration) == startTotal + duration

endTotalOf(startTotal, duration) == (startTotal + duration) % (24 * 60)

endHour12Of(endHour24) == ((endHour24 + 11) % 12) + 1

parseStartTimeAndDuration(t) ==
    LET p == FirstStartMatch(t)
    IN  IF t = <<>> \/ p = 0 THEN Null
        ELSE LET sh == t[p].h
                 sm == MinuteOf(t[p].m)
                 sap == normAp(t[p + 1].s)
                 start24 == to24Hour([h |-> sh, m |-> sm, ap |-> sap])
                 startTotal == start24.hour * 60 + start24.minute
                 endTotal == endTotalOf(startTotal, durationMinutes(t))
                 endHour24 == endTotal \div 60
                 endMinute == endTotal % 60
                 endAp == IF endHour24 >= 12 THEN "PM" ELSE "AM"
             IN  IF sap = "none" \/ durationMinutes(t) = 0 THEN Null
                 ELSE [ok |-> TRUE,
                       start |-> [h |-> sh, m |-> sm, ap |-> sap],
                       end |-> [h |-> endHour12Of(endHour24), m |-> endMinute, ap |-> endAp]]

\* parseEventTimeRange(bodyText) || parseStartTimeAndDuration(bodyText)
trFromText(t) ==
    IF parseEventTimeRange(t).ok THEN parseEventTimeRange(t)
    ELSE parseStartTimeAndDuration(t)

\* ------------------------------------------------------------------ dates
MonthNames == << "january", "february", "march", "april", "may", "june", "july",
                 "august", "september", "october", "november", "december" >>

\* A date label as the label regex captures it: matched, month name (lower
\* case), day, year.
Label(mon, day) == [matched |-> TRUE, monthName |-> mon, day |-> day, year |-> 2026]
NoLabel == [matched |-> FALSE, monthName |-> "", day |-> 0, year |-> 0]

NoYmd == <<>>

parseDateLabelToYmd(l) ==
    IF ~l.matched THEN NoYmd
    ELSE IF ~\E k \in DOMAIN MonthNames : MonthNames[k] = l.monthName THEN NoYmd
    ELSE LET month == CHOOSE k \in DOMAIN MonthNames : MonthNames[k] = l.monthName
         IN  Pad4(l.year) \o <<45>> \o Pad2(month) \o <<45>> \o Pad2(l.day)

ymdAndTimeToIsoLocal(ymd, hour, minute) ==
    ymd \o <<84>> \o Pad2(hour) \o <<58>> \o Pad2(minute) \o <<58, 48, 48>>

\* main(), lines 690-701: the start and end timestamps of an item.
windowOf(ymd, tr) ==
    IF tr.ok
    THEN [start |-> ymdAndTimeToIsoLocal(ymd, to24Hour(tr.start).hour, to24Hour(tr.start).minute),
          end |-> ymdAndTimeToIsoLocal(ymd, to24Hour(tr.end).hour, to24Hour(tr.end).minute)]
    ELSE [start |-> ymdAndTimeToIsoLocal(ymd, 10, 0),
          end |-> ymdAndTimeToIsoLocal(ymd, 20, 0)]

\* ------------------------------------------------------ URLs and events
COMPANY == "floridarama"

\* A URL as the code reads it: hostname, the company of an
\* /embeds/book/<company>/items/ path ("" without such a path), the digits
\* after /items/ (0 without them) and the digits after /availability/.
Url(host, company, item, avail) ==
    [host |-> host, company |-> company, item |-> item, avail |-> avail]

\* An href as found in a page: host "" for a relative one.
Href(host, company, item, avail) == Url(host, company, item, avail)
NoHref == Url("", "", 0, 0)

\* new URL(url, "https://fareharbor.com").toString()
normalizeFareharborUrl(href) ==
    IF href.host = "" THEN [href EXCEPT !.host = "fareharbor.com"] ELSE href

isFareharborEvent(e) ==
    e.url.host = "fareharbor.com" /\ e.url.company = COMPANY

\* The digits of /items/(\d+), 0 for none.
itemIdFromFareharborUrl(url) == url.item

\* An event object; thumbnail "" and end <<>> stand for an absent key.
Event(title, start, end, url, thumbnail) ==
    [title |-> title, start |-> start, end |-> end, url |-> url, thumbnail |-> thumbnail]

\* Intl.DateTimeFormat("en-CA", ...).format(new Date()): YYYY-MM-DD.
todayYmdInTimeZone(day) == Pad4(2026) \o <<45>> \o Pad2(1) \o <<45>> \o Pad2(day)

YmdOf(day) == parseDateLabelToYmd(Label("january", day))

\* ------------------------------------------------- the persisted document
\* The document is an array of events, or something JSON.parse rejects or
\* that is no array (ok = FALSE).
Document(events) == [ok |-> TRUE, events |-> events]
Unreadable == [ok |-> FALSE, events |-> <<>>]

\* JSON.parse(await fs.readFile(EVENTS_FILE)) with the catch and the
\* Array.isArray test.
readExisting(d) == IF d.ok THEN d.events ELSE <<>>

\* JSON.stringify(out, null, 2) + "\n" as the new content of the file.
serialize(events) == Document(events)

\* Events a document may hold before the first run: two added by hand (one
\* all-day and long past, one upcoming) and two left by an earlier sync.
ManualLate ==
    Event("Manual late", ymdAndTimeToIsoLocal(YmdOf(3), 12, 0),
          ymdAndTimeToIsoLocal(YmdOf(3), 13, 0), Url("example.org", "", 0, 0), "")
OldSync1 ==
    Event("Old one", ymdAndTimeToIsoLocal(YmdOf(1), 10, 0),
          ymdAndTimeToIsoLocal(YmdOf(1), 20, 0), Url("fareharbor.com", COMPANY, 2, 10), "")
ManualEarly ==
    Event("Manual early", YmdOf(1), <<>>, Url("example.org", "", 0, 1), "img-manual")
OldSync2 ==
    Event("Old two", ymdAndTimeToIsoLocal(YmdOf(3), 10, 0),
          ymdAndTimeToIsoLocal(YmdOf(3), 20, 0), Url("fareharbor.com", COMPANY, 2, 20), "")

PersistedPool == << ManualLate, OldSync1, ManualEarly, OldSync2 >>

\* The subsequences of s with at most n elements.
RECURSIVE SubSeqsUpTo(_, _)
SubSeqsUpTo(s, n) ==
    IF s = <<>> \/ n = 0 THEN { <<>> }
    ELSE SubSeqsUpTo(Tail(s), n)
         \cup { <<Head(s)>> \o r : r \in SubSeqsUpTo(Tail(s), n - 1) }

Documents == { Document(es) : es \in SubSeqsUpTo(PersistedPool, MaxDoc) } \cup { Unreadable }

\* --------------------------------------------------------------- the site
\* What the browser tier reads from a rendered item page.
Dom(title, thumbnail, availabilityUrl, label, bodyText) ==
    [title |-> title, thumbnail |-> thumbnail, availabilityUrl |-> availabilityUrl,
     dateLabel |-> label, bodyText |-> bodyText]
NoDom == Dom("", "", NoHref, NoLabel, <<>>)

\* An item page: whether the static fetch succeeds, what extractTitleFromHtml
\* and extractBestImageFromHtml find ("" for null), the "Prices for" anchor
\* (NoHref when absent), the page text, and the rendered page.
Page(fetched, title, thumbnail, href, label, txt, dom) ==
    [fetched |-> fetched, title |-> title, thumbnail |-> thumbnail,
     href |-> href, label |-> label, text |-> txt, dom |-> dom]

RangeText == << Num(6, -1), Conn, Num(10, -1), Ap("PM") >>
DurationText == << Num(6, -1), Ap("PM"), Num(2, -1), HoursWord >>
PlainText == << Word >>

\* The upstream site, in listing order.
SitePages == <<
    \* 1: tomorrow, no time in the static text; the rendered page has title and range
    Page(TRUE, "", "", Href("fareharbor.com", COMPANY, 1, 11), Label("january", 3),
         PlainText, Dom("Tomorrow", "img-dom", NoHref, NoLabel, RangeText)),
    \* 2: today, explicit range
    Page(TRUE, "A", "img-a", Href("fareharbor.com", COMPANY, 2, 22), Label("january", 2),
         RangeText, NoDom),
    \* 3: links the same availability as 2 by a relative href; start time and duration
    Page(TRUE, "B", "", Href("", COMPANY, 2, 22), Label("january", 2),
         DurationText, NoDom),
    \* 4: yesterday
    Page(TRUE, "Y", "", Href("fareharbor.com", COMPANY, 4, 44), Label("january", 1),
         RangeText, NoDom),
    \* 5: yesterday, linked by an href without the company path
    Page(TRUE, "D", "", Href("", "", 0, 55), Label("january", 1),
         RangeText, NoDom),
    \* 6: the static fetch fails
    Page(FALSE, "", "", NoHref, NoLabel, <<>>, NoDom),
    \* 7: client-rendered: the anchor is only in the rendered page
    Page(TRUE, "F", "", NoHref, NoLabel, PlainText,
         Dom("F dom", "", Href("fareharbor.com", COMPANY, 7, 77), Label("january", 3), DurationText)),
    \* 8: a date label with an unknown month name
    Page(TRUE, "G", "", Href("fareharbor.com", COMPANY, 8, 88), Label("smarch", 2),
         RangeText, NoDom) >>

ItemIds == DOMAIN SitePages

\* The page behind an item URL; an id the site does not know is a 404.
PageOf(id) == IF id \in ItemIds THEN SitePages[id] ELSE SitePages[6]

\* itemUrls.slice(0, 50)
ItemCap == 50

\* What a tier of the listing resolver yields: item ids, or an exception.
Yield(urls) == [ok |-> TRUE, urls |-> urls]
Throws == [ok |-> FALSE, urls |-> <<>>]

RECURSIVE IdSeq(_, _)
IdSeq(from, to) == IF from > to THEN <<>> ELSE <<from>> \o IdSeq(from + 1, to)

\* The listing shows at most MaxItems of the site's items, in site order, or
\* it is a long listing of more than ItemCap stale item URLs (every one a 404),
\* one of them twice.  The browser tier is consulted only when the static tier
\* yields no URL.
Listings ==
    { [static |-> Yield(urls), browser |-> Throws] :
        urls \in SubSeqsUpTo(IdSeq(1, Len(SitePages)), MaxItems) \ { <<>> } }
    \cup { [static |-> Throws, browser |-> Throws] }
    \cup { [static |-> Yield(IdSeq(Len(SitePages) + 1, Len(SitePages) + ItemCap + 2)
                                \o <<Len(SitePages) + 1>>),
              browser |-> Throws] }
    \cup { [static |-> Yield(<<>>), browser |-> b] :
             b \in { Throws } \cup { Yield(urls) : urls \in SubSeqsUpTo(IdSeq(1, Len(SitePages)), 1) } }

\* ------------------------------------------------------ browser sessions
\* How one call of withPlaywright(fn) ends: fn returns, or one of its awaits
\* rejects (the import, chromium.launch, browser.newContext, fn itself).
BrowserOutcomes == { "ok", "importFails", "launchFails", "contextFails", "fnFails" }
BrowserFailures == BrowserOutcomes \ { "ok" }

\* chromium.launch resolved: a browser process exists.
launched(o) == o \notin { "importFails", "launchFails" }

\* The finally block of lines 363-366 ran: it is entered only once newContext
\* has resolved.
closedInFinally(o) == o \in { "ok", "fnFails" }

NoSessions == [open |-> 0, peak |-> 0]

\* The browsers open after a call of withPlaywright that ends as o, and the
\* most that were open at once.
withPlaywright(o, s) ==
    [open |-> s.open + (IF launched(o) /\ ~closedInFinally(o) THEN 1 ELSE 0),
     peak |-> IF launched(o) /\ s.open + 1 > s.peak THEN s.open + 1 ELSE s.peak]

\* ------------------------------------------------------- main()'s pieces
\* [...new Set(xs)]: first occurrences, in order.
Distinct(xs) ==
    CHOOSE r \in
      { [n \in 1..Cardinality(firsts) |->
            xs[CHOOSE k \in firsts : Cardinality({ j \in firsts : j <= k }) = n]]
        : firsts \in { { k \in DOMAIN xs : \A j \in 1..(k - 1) : xs[j] # xs[k] } } } : TRUE

\* The item list passed on whole.
capItemsUncapped(itemUrls) == itemUrls

\* Line 617.
capItems(itemUrls) == SubSeq(itemUrls, 1, Min(ItemCap, Len(itemUrls)))

\* Line 383: the listing is rendered in a browser when the static HTML was
\* fetched and holds no item URL.
usesListingBrowser(l) == l.static.ok /\ l.static.urls = <<>>

\* getItemUrlsFromListing: the static tier when it has URLs, else the browser
\* tier; an exception of either is the resolver's exception.
getItemUrlsFromListing(l) ==
    IF ~l.static.ok THEN Throws
    ELSE IF l.static.urls # <<>> THEN Yield(Distinct(l.static.urls))
    ELSE IF ~l.browser.ok THEN Throws
    ELSE Yield(Distinct(l.browser.urls))

RECURSIVE MapItemIds(_)
MapItemIds(es) ==
    IF es = <<>> THEN <<>>
    ELSE <<itemIdFromFareharborUrl(Head(es).url)>> \o MapItemIds(Tail(es))

\* The catch block of lines 598-615: item URLs rebuilt from the item ids of
\* the persisted platform events.
reconstructItemUrls(d) ==
    LET existing == readExisting(d)
        platform == SelectSeq(existing, isFareharborEvent)
        ids == SelectSeq(MapItemIds(platform), LAMBDA id : id # 0)
    IN  Distinct(ids)

\* Merging without the partition: every persisted event is carried forward.
keepOfEverything(merge, d) == IF merge THEN readExisting(d) ELSE <<>>

\* Lines 620-633.
keepOf(merge, d) ==
    IF merge
    THEN SelectSeq(readExisting(d), LAMBDA e : ~isFareharborEvent(e))
    ELSE <<>>

\* No iteration yet.  outcome is "none" when the browser tier is not entered;
\* slept tells whether the iteration ended in sleep(250).
NoItem == [outcome |-> "none", pushed |-> FALSE, slept |-> FALSE]

\* One iteration of processItems (lines 637-713) on a page: whether an event
\* is pushed, and which.  browserWorks is the outcome of the browser tier
\* should it be entered.
NoEvent == Event("", <<>>, <<>>, NoHref, "")

\* Lines 670-710 for a page whose static tier gave tr0 and whose browser tier,
\* if entered, left the window tr.
itemEvent(page, domOk, tr) ==
    LET dom == page.dom
        title0 == IF page.title # "" THEN page.title ELSE "Untitled Event"
        title == IF domOk /\ dom.title # "" THEN dom.title ELSE title0
        thumbnail == IF domOk /\ dom.thumbnail # "" THEN dom.thumbnail ELSE page.thumbnail
        domPrices == domOk /\ dom.availabilityUrl # NoHref /\ dom.dateLabel # NoLabel
        href == IF domPrices THEN dom.availabilityUrl ELSE page.href
        label == IF domPrices THEN dom.dateLabel ELSE page.label
    IN  IF href = NoHref THEN [pushed |-> FALSE, event |-> NoEvent]
        ELSE IF parseDateLabelToYmd(label) = NoYmd THEN [pushed |-> FALSE, event |-> NoEvent]
        ELSE [pushed |-> TRUE,
              event |-> Event(title,
                              windowOf(parseDateLabelToYmd(label), tr).start,
                              windowOf(parseDateLabelToYmd(label), tr).end,
                              normalizeFareharborUrl(href), thumbnail)]

\* The browser tier is entered when the static tier lacks the anchor or a time.
entersBrowser(page, tr0, usePlaywright) ==
    (page.href = NoHref \/ ~tr0.ok) /\ usePlaywright

\* Whether the iteration on this page calls withPlaywright (line 658, reached
\* only past the fetch of line 643).
browserTier(page, usePlaywright) ==
    page.fetched /\ \E tr0 \in { trFromText(page.text) } : entersBrowser(page, tr0, usePlaywright)

\* The iteration with a browser failure always skipping the item.
processItemBrowserFailureSkips(page, usePlaywright, browserWorks) ==
    IF ~page.fetched THEN [pushed |-> FALSE, event |-> NoEvent]
    ELSE CHOOSE r \in
           { IF entersBrowser(page, tr0, usePlaywright)
             THEN IF browserWorks
                  THEN CHOOSE x \in
                         { itemEvent(page, TRUE, tr) :
                             tr \in { trFromText(IF page.dom.bodyText # <<>>
                                                 THEN page.dom.bodyText ELSE page.text) } } : TRUE
                  ELSE [pushed |-> FALSE, event |-> NoEvent]
             ELSE itemEvent(page, FALSE, tr0)
             : tr0 \in { trFromText(page.text) } } : TRUE

processItem(page, usePlaywright, browserWorks) ==
    IF ~page.fetched THEN [pushed |-> FALSE, event |-> NoEvent]
    ELSE CHOOSE r \in
           { IF entersBrowser(page, tr0, usePlaywright)
             THEN IF browserWorks
                  THEN CHOOSE x \in
                         { itemEvent(page, TRUE, tr) :
                             tr \in { trFromText(IF page.dom.bodyText # <<>>
                                                 THEN page.dom.bodyText ELSE page.text) } } : TRUE
                  ELSE IF page.href = NoHref THEN [pushed |-> FALSE, event |-> NoEvent]
                  ELSE itemEvent(page, FALSE, tr0)
             ELSE itemEvent(page, FALSE, tr0)
             : tr0 \in { trFromText(page.text) } } : TRUE

\* The Map key `${clean.url}::${clean.start}`; start is fixed-width, so the key
\* determines the pair.
keyOf(e) == <<e.url, e.start>>

\* Lines 721-727.
clean(e) == Event(e.title, e.start, e.end, e.url, e.thumbnail)

\* byKey.set on every candidate: the last occurrence per key wins.
RECURSIVE dedupeLastWins(_)
dedupeLastWins(es) ==
    IF es = <<>> THEN <<>>
    ELSE LET rest == dedupeLastWins(Tail(es))
             e == [title |-> Head(es).title, start |-> Head(es).start, end |-> Head(es).end,
                   url |-> Head(es).url, thumbnail |-> Head(es).thumbnail]
         IN  IF \E k \in DOMAIN rest : <<rest[k].url, rest[k].start>> = <<e.url, e.start>>
             THEN rest ELSE <<e>> \o rest

\* Lines 719-731: [...byKey.values()], first occurrence per key, insertion order.
RECURSIVE dedupe(_)
dedupe(es) ==
    IF es = <<>> THEN <<>>
    ELSE LET front == dedupe(SubSeq(es, 1, Len(es) - 1))
             e == clean(es[Len(es)])
         IN  IF \E k \in DOMAIN front : keyOf(front[k]) = keyOf(e) THEN front
             ELSE Append(front, e)

\* The filter with > for >=: events ending today are retired too.
keptByFilterStrict(e, kept, todayYmd) ==
    IF Len(kept) # 0 /\ ~isFareharborEvent(e) THEN TRUE
    ELSE LET endYmd == Slice0(IF e.end # <<>> THEN e.end ELSE e.start, 10)
         IN  endYmd # <<>> /\ CodeUnitCompare(endYmd, todayYmd) > 0

\* The filter callback of lines 734-739.
keptByFilter(e, kept, todayYmd) ==
    IF Len(kept) # 0 /\ ~isFareharborEvent(e) THEN TRUE
    ELSE LET endYmd == Slice0(IF e.end # <<>> THEN e.end ELSE e.start, 10)
         IN  endYmd # <<>> /\ CodeUnitCompare(endYmd, todayYmd) >= 0

\* The comparator of line 741.
compareByStart(a, b) == localeCompare(a.start, b.start)

\* Array.prototype.sort with that comparator: stable.
RECURSIVE insertSorted(_, _)
insertSorted(sorted, e) ==
    IF sorted = <<>> THEN <<e>>
    ELSE IF compareByStart(sorted[Len(sorted)], e) <= 0 THEN Append(sorted, e)
    ELSE Append(insertSorted(SubSeq(sorted, 1, Len(sorted) - 1), e), sorted[Len(sorted)])

\* The output left in concatenation order.
sortByStartSkipped(es) == es

RECURSIVE sortByStart(_)
sortByStart(es) ==
    IF es = <<>> THEN <<>>
    ELSE insertSorted(sortByStart(SubSeq(es, 1, Len(es) - 1)), es[Len(es)])

\* Lines 733-741.
assemble(kept, fresh, day) ==
    sortByStart(SelectSeq(kept \o fresh,
                          LAMBDA e : keptByFilter(e, kept, todayYmdInTimeZone(day))))

\* ------------------------------------------------- the normalizer machine
\* The run's variables while only the normalizer is exercised.
RunIdle ==
    /\ SHOULD_WRITE = FALSE /\ MERGE_EXISTING = FALSE
    /\ ALLOW_EMPTY_WRITE = FALSE /\ USE_PLAYWRIGHT = FALSE
    /\ today = 1
    /\ listing = <<>>
    /\ doc = <<>> /\ docPre = <<>>
    /\ pc = "idle" /\ uniqueItemUrls = <<>> /\ i = 0
    /\ keep = <<>> /\ scraped = <<>> /\ byKey = <<>> /\ out = <<>>
    /\ exitCode = 0 /\ written = "no"
    /\ run = "first" /\ firstOut = <<>> /\ firstScraped = <<>> /\ firstItems = <<>>
    /\ reads = 0 /\ sessions = NoSessions /\ lastItem = NoItem

\* The extraction's variables while no page is examined.
ExtractIdle ==
    /\ epc = "idle" /\ html = <<>> /\ pageTitle = "" /\ pageThumbnail = <<>>

\* The worker's variables while no request is handled.
NoResponse == 0

HookIdle ==
    /\ wpc = "idle" /\ request = <<>> /\ env = <<>>
    /\ response = NoResponse /\ dispatch = "none"

NoIso == <<>>

\* The normalizer's variables while no text is examined.
TimeIdle ==
    /\ tpc = "idle" /\ text = <<>> /\ dateLabel = NoLabel
    /\ rangeRes = Null /\ durRes = Null
    /\ startIso = NoIso /\ endIso = NoIso

InitTime ==
    /\ RunIdle
    /\ HookIdle
    /\ ExtractIdle
    /\ tpc = "text"
    /\ text \in Texts
    /\ dateLabel = Label("january", MaxDay)
    /\ rangeRes = Null /\ durRes = Null
    /\ startIso = NoIso /\ endIso = NoIso

\* parseEventTimeRange(bodyText), the left operand of || at line 653.
TryRange ==
    /\ tpc = "text"
    /\ rangeRes' = parseEventTimeRange(text)
    /\ tpc' = IF rangeRes'.ok THEN "window" ELSE "duration"
    /\ UNCHANGED <<text, dateLabel, durRes, startIso, endIso>>
    /\ UNCHANGED besidesTime

\* parseStartTimeAndDuration(bodyText), evaluated only when the range is null.
TryDuration ==
    /\ tpc = "duration"
    /\ durRes' = parseStartTimeAndDuration(text)
    /\ tpc' = "window"
    /\ UNCHANGED <<text, dateLabel, rangeRes, startIso, endIso>>
    /\ UNCHANGED besidesTime

\* Lines 684-701: the date of the label and the window on that date.
BuildWindow ==
    /\ tpc = "window"
    /\ LET w == windowOf(parseDateLabelToYmd(dateLabel),
                         IF rangeRes.ok THEN rangeRes ELSE durRes)
       IN  startIso' = w.start /\ endIso' = w.end
    /\ tpc' = "built"
    /\ UNCHANGED <<text, dateLabel, rangeRes, durRes>>
    /\ UNCHANGED besidesTime

NextTime == TryRange \/ TryDuration \/ BuildWindow

SpecTime == InitTime /\ [][NextTime]_vars

\* --------------------------------------------------------- the run machine
Init ==
    /\ SHOULD_WRITE \in BOOLEAN /\ MERGE_EXISTING \in BOOLEAN
    /\ ALLOW_EMPTY_WRITE \in BOOLEAN /\ USE_PLAYWRIGHT \in BOOLEAN
    /\ today \in 2..(MaxDay - 1)
    /\ listing \in Listings
    /\ doc \in Documents
    /\ docPre = doc
    /\ pc = "listing" /\ uniqueItemUrls = <<>> /\ i = 0
    /\ keep = <<>> /\ scraped = <<>> /\ byKey = <<>> /\ out = <<>>
    /\ exitCode = 0 /\ written = "no"
    /\ run = "first" /\ firstOut = <<>> /\ firstScraped = <<>> /\ firstItems = <<>>
    /\ reads = 0 /\ sessions = NoSessions /\ lastItem = NoItem
    /\ HookIdle
    /\ ExtractIdle
    /\ tpc = "idle" /\ text = <<>> /\ dateLabel = NoLabel
    /\ rangeRes = Null /\ durRes = Null
    /\ startIso = NoIso /\ endIso = NoIso

config == <<SHOULD_WRITE, MERGE_EXISTING, ALLOW_EMPTY_WRITE, USE_PLAYWRIGHT, today, listing>>
history == <<run, docPre, firstOut, firstScraped, firstItems>>
surroundings == <<reads, sessions, lastItem>>

\* Lines 592-618: resolve the listing, or fall back to the persisted item ids.
ResolveListing ==
    /\ pc = "listing"
    /\ \E got \in { getItemUrlsFromListing(listing) } :
          /\ uniqueItemUrls' = capItems(IF got.ok THEN got.urls ELSE reconstructItemUrls(doc))
          /\ reads' = IF got.ok THEN reads ELSE reads + 1
    /\ IF usesListingBrowser(listing)
       THEN \E o \in IF listing.browser.ok THEN { "ok" } ELSE BrowserFailures :
               sessions' = withPlaywright(o, sessions)
       ELSE UNCHANGED sessions
    /\ pc' = "merge"
    /\ UNCHANGED <<config, history, doc, i, keep, scraped, byKey, out, exitCode, written, lastItem>>
    /\ UNCHANGED besidesRun

\* The merge step reading the document whether or not it merges.
ReadKeepAlwaysReads ==
    /\ pc = "merge"
    /\ keep' = keepOf(MERGE_EXISTING, doc)
    /\ scraped' = <<>>
    /\ i' = 0
    /\ pc' = "items"
    /\ reads' = reads + 1
    /\ UNCHANGED <<config, history, doc, uniqueItemUrls, byKey, out, exitCode, written,
                   sessions, lastItem>>
    /\ UNCHANGED besidesRun

\* Lines 620-634.
ReadKeep ==
    /\ pc = "merge"
    /\ keep' = keepOf(MERGE_EXISTING, doc)
    /\ scraped' = <<>>
    /\ i' = 0
    /\ pc' = "items"
    /\ reads' = IF MERGE_EXISTING THEN reads + 1 ELSE reads
    /\ UNCHANGED <<config, history, doc, uniqueItemUrls, byKey, out, exitCode, written,
                   sessions, lastItem>>
    /\ UNCHANGED besidesRun

\* One iteration of the loop of processItems.
ProcessItem ==
    /\ pc = "items"
    /\ i < Len(uniqueItemUrls)
    /\ \E page \in { PageOf(uniqueItemUrls[i + 1]) } :
         \E o \in IF browserTier(page, USE_PLAYWRIGHT) THEN BrowserOutcomes ELSE { "none" } :
            \E r \in { processItem(page, USE_PLAYWRIGHT, o = "ok") } :
               /\ scraped' = IF r.pushed THEN Append(scraped, r.event) ELSE scraped
               /\ sessions' = IF o = "none" THEN sessions ELSE withPlaywright(o, sessions)
               /\ lastItem' = [outcome |-> o, pushed |-> r.pushed, slept |-> r.pushed]
    /\ i' = i + 1
    /\ UNCHANGED <<config, history, doc, pc, uniqueItemUrls, keep, byKey, out, exitCode, written,
                   reads>>
    /\ UNCHANGED besidesRun

\* Lines 718-741, once the loop is over.
Assemble ==
    /\ pc = "items"
    /\ i = Len(uniqueItemUrls)
    /\ byKey' = dedupe(scraped)
    /\ out' = assemble(keep, byKey', today)
    /\ pc' = "finish"
    /\ UNCHANGED <<config, history, doc, uniqueItemUrls, i, keep, scraped, exitCode, written>>
    /\ UNCHANGED besidesRun
    /\ UNCHANGED surroundings

\* The guard with the override forgotten.
refusesWriteIgnoringOverride(allowEmpty, events) == Len(events) = 0

\* The guard of line 752.
refusesWrite(allowEmpty, events) == ~allowEmpty /\ Len(events) = 0

\* Lines 743-750.
DryRun ==
    /\ pc = "finish"
    /\ ~SHOULD_WRITE
    /\ pc' = "done"
    /\ UNCHANGED <<config, history, doc, uniqueItemUrls, i, keep, scraped, byKey, out,
                   exitCode, written>>
    /\ UNCHANGED besidesRun
    /\ UNCHANGED surroundings

\* The refusal without a status.
RefuseEmptySilently ==
    /\ pc = "finish"
    /\ SHOULD_WRITE
    /\ refusesWrite(ALLOW_EMPTY_WRITE, out)
    /\ pc' = "done"
    /\ UNCHANGED <<config, history, doc, uniqueItemUrls, i, keep, scraped, byKey, out, written,
                   exitCode>>
    /\ UNCHANGED besidesRun
    /\ UNCHANGED surroundings

\* Lines 752-758.
RefuseEmpty ==
    /\ pc = "finish"
    /\ SHOULD_WRITE
    /\ refusesWrite(ALLOW_EMPTY_WRITE, out)
    /\ exitCode' = 2
    /\ pc' = "done"
    /\ UNCHANGED <<config, history, doc, uniqueItemUrls, i, keep, scraped, byKey, out, written>>
    /\ UNCHANGED besidesRun
    /\ UNCHANGED surroundings

\* The write without the test of the write switch.
WriteFileUnguarded ==
    /\ pc = "finish"
    /\ ~refusesWrite(ALLOW_EMPTY_WRITE, out)
    /\ doc' = serialize(out)
    /\ written' = "yes"
    /\ pc' = "done"
    /\ UNCHANGED <<config, history, uniqueItemUrls, i, keep, scraped, byKey, out, exitCode>>
    /\ UNCHANGED besidesRun
    /\ UNCHANGED surroundings

\* Lines 760-761, fs.writeFile resolving.
WriteFile ==
    /\ pc = "finish"
    /\ SHOULD_WRITE
    /\ ~refusesWrite(ALLOW_EMPTY_WRITE, out)
    /\ doc' = serialize(out)
    /\ written' = "yes"
    /\ pc' = "done"
    /\ UNCHANGED <<config, history, uniqueItemUrls, i, keep, scraped, byKey, out, exitCode>>
    /\ UNCHANGED besidesRun
    /\ UNCHANGED surroundings

\* Lines 760 and 764-767, fs.writeFile rejecting: the file could not be opened
\* (it is as it was) or was opened, truncated and not completed; main()'s
\* catch sets the exit code.
WriteFails ==
    /\ pc = "finish"
    /\ SHOULD_WRITE
    /\ ~refusesWrite(ALLOW_EMPTY_WRITE, out)
    /\ doc' \in { doc, Unreadable }
    /\ written' = "failed"
    /\ exitCode' = 1
    /\ pc' = "done"
    /\ UNCHANGED <<config, history, uniqueItemUrls, i, keep, scraped, byKey, out>>
    /\ UNCHANGED besidesRun
    /\ UNCHANGED surroundings

\* A second run of the script, started from the document the first one wrote,
\* against the same site and with the same flags on the same day.
RunAgain ==
    /\ pc = "done"
    /\ run = "first"
    /\ written = "yes"
    /\ run' = "second"
    /\ docPre' = doc
    /\ firstOut' = out /\ firstScraped' = scraped /\ firstItems' = uniqueItemUrls
    /\ pc' = "listing" /\ uniqueItemUrls' = <<>> /\ i' = 0
    /\ keep' = <<>> /\ scraped' = <<>> /\ byKey' = <<>> /\ out' = <<>>
    /\ exitCode' = 0 /\ written' = "no"
    /\ reads' = 0 /\ sessions' = NoSessions /\ lastItem' = NoItem
    /\ UNCHANGED <<config, doc>>
    /\ UNCHANGED besidesRun

Next ==
    \/ ResolveListing
    \/ ReadKeep
    \/ ProcessItem
    \/ Assemble
    \/ DryRun
    \/ RefuseEmpty
    \/ WriteFile
    \/ WriteFails
    \/ RunAgain

Spec == Init /\ [][Next]_vars

\* ------------------------------------------------------ the webhook worker
\* cloudflare-worker/src/index.js.  Header values, tokens and secrets are
\* sequences of character codes; <<>> is an absent header or an unset secret.
\* String.prototype.toLowerCase and toUpperCase on ASCII.
toLowerCase(str) == [k \in DOMAIN str |-> IF str[k] \in 65..90 THEN str[k] + 32 ELSE str[k]]
toUpperCase(str) == [k \in DOMAIN str |-> IF str[k] \in 97..122 THEN str[k] - 32 ELSE str[k]]

\* String.prototype.trim for spaces.
RECURSIVE trim(_)
trim(str) ==
    IF str = <<>> THEN <<>>
    ELSE IF Head(str) = 32 THEN trim(Tail(str))
    ELSE IF str[Len(str)] = 32 THEN trim(SubSeq(str, 1, Len(str) - 1))
    ELSE str

startsWith(str, prefix) ==
    Len(str) >= Len(prefix) /\ SubSeq(str, 1, Len(prefix)) = prefix

\* str.slice(n)
SliceFrom(str, n) == SubSeq(str, n + 1, Len(str))

\* Lines 118-126: unequal lengths differ; else the OR of the XORs is 0 exactly
\* when every byte agrees.
timingSafeEqualStr(a, b) ==
    IF Len(a) # Len(b) THEN FALSE
    ELSE \A k \in DOMAIN a : a[k] = b[k]

HexDigit(n) == IF n < 10 THEN 48 + n ELSE 87 + n

\* Lines 80-89: the MAC of the body under the secret, as lower-case hex.  The
\* digest is a keyed function of both arguments.
macHexOf(secret, body) ==
    << HexDigit((secret[1] + 7 * Len(secret) + 5 * body) % 16),
       HexDigit((secret[Len(secret)] + 11 * body) % 16),
       HexDigit(10 + ((body + Len(secret)) % 6)) >>

BearerPrefix == << 98, 101, 97, 114, 101, 114, 32 >>
Sha256Prefix == << 115, 104, 97, 50, 53, 54, 61 >>

\* Lines 53-67.
verifyTokenAuth(req, e) ==
    IF e.WEBHOOK_TOKEN = <<>> THEN TRUE
    ELSE IF startsWith(toLowerCase(req.authorization), BearerPrefix)
    THEN timingSafeEqualStr(trim(SliceFrom(req.authorization, Len(BearerPrefix))), e.WEBHOOK_TOKEN)
    ELSE IF req.xWebhookToken # <<>>
    THEN timingSafeEqualStr(trim(req.xWebhookToken), e.WEBHOOK_TOKEN)
    ELSE FALSE

\* Lines 69-92.
verifyHmacAuth(req, e) ==
    IF e.WEBHOOK_HMAC_SECRET = <<>> THEN TRUE
    ELSE LET sigHeader == IF req.xSignature256 # <<>> THEN req.xSignature256
                          ELSE req.xHubSignature256
             provided == IF startsWith(sigHeader, Sha256Prefix)
                         THEN SliceFrom(sigHeader, 7) ELSE sigHeader
         IN  IF sigHeader = <<>> THEN FALSE
             ELSE timingSafeEqualStr(macHexOf(e.WEBHOOK_HMAC_SECRET, req.body),
                                     toLowerCase(trim(provided)))

\* Line 34: the declared length, when there is one, is over the limit.
BodyLimit == 1000000
tooLarge(req) == req.contentLength # 0 /\ req.contentLength > BodyLimit

\* Lines 15-49: the status of the response.
statusOf(req, e) ==
    IF req.path = "/health" THEN 200
    ELSE IF req.path # "/fareharbor/webhook" THEN 404
    ELSE IF req.method # "POST" THEN 405
    ELSE IF tooLarge(req) THEN 413
    ELSE IF ~(verifyTokenAuth(req, e) /\ verifyHmacAuth(req, e)) THEN 401
    ELSE 202

\* The requests and environments of the model.
Token == << 116, 111, 107 >>
Secret == << 115, 101, 99 >>
Bodies == { 1, 2 }
BodySizes == { 10, BodyLimit, BodyLimit + 1 }

Authorizations ==
    { <<>>,
      << 66, 101, 97, 114, 101, 114, 32 >> \o Token,
      BearerPrefix \o << 32 >> \o Token \o << 32 >>,
      << 66, 101, 97, 114, 101, 114, 32 >> \o << 116, 111, 120 >>,
      BearerPrefix \o Token \o << 107 >>,
      << 66, 97, 115, 105, 99, 32 >> \o Token }

WebhookTokens == { <<>>, Token, << 32 >> \o Token, << 116, 111, 120 >> }

Signatures(body) ==
    { <<>>,
      macHexOf(Secret, body),
      Sha256Prefix \o toUpperCase(macHexOf(Secret, body)),
      Sha256Prefix \o macHexOf(Secret, 3 - body),
      macHexOf(Token, body) }

\* The Content-Length header is absent (0) on a chunked request, and is the
\* length of the body otherwise.
Requests ==
    { [path |-> p, method |-> m, bodyBytes |-> n, contentLength |-> cl, body |-> b,
       authorization |-> a, xWebhookToken |-> x, xSignature256 |-> sg, xHubSignature256 |-> hub] :
        p \in { "/health", "/fareharbor/webhook", "/other" }, m \in { "POST", "GET" },
        n \in BodySizes, cl \in { 0 } \cup BodySizes, b \in Bodies,
        a \in Authorizations, x \in WebhookTokens,
        sg \in UNION { Signatures(bb) : bb \in Bodies },
        hub \in { <<>>, macHexOf(Secret, 1) } }

Environments ==
    { [WEBHOOK_TOKEN |-> t, WEBHOOK_HMAC_SECRET |-> h, GITHUB_TOKEN |-> g] :
        t \in { <<>>, Token }, h \in { <<>>, Secret }, g \in { <<>>, Token } }

InitHook ==
    /\ RunIdle
    /\ TimeIdle
    /\ ExtractIdle
    /\ wpc = "received"
    /\ request \in { r \in Requests : r.contentLength \in { 0, r.bodyBytes } }
    /\ env \in Environments
    /\ response = NoResponse /\ dispatch = "none"

\* fetch(request, env, ctx): the response, and ctx.waitUntil(dispatch...) on
\* the accepting path only.
Fetch ==
    /\ wpc = "received"
    /\ response' = statusOf(request, env)
    /\ dispatch' = IF response' = 202 THEN "requested" ELSE "none"
    /\ wpc' = "responded"
    /\ UNCHANGED <<request, env>>
    /\ UNCHANGED besidesHook

\* Lines 94-116: the promise handed to waitUntil settles; the call to GitHub
\* may fail.
DispatchGitHubWorkflow ==
    /\ wpc = "responded"
    /\ dispatch = "requested"
    /\ \E githubOk \in BOOLEAN :
          dispatch' = IF env.GITHUB_TOKEN # <<>> /\ githubOk THEN "sent" ELSE "failed"
    /\ wpc' = "settled"
    /\ UNCHANGED <<request, env, response>>
    /\ UNCHANGED besidesHook

NextHook == Fetch \/ DispatchGitHubWorkflow

SpecHook == InitHook /\ [][NextHook]_vars

\* -------------------------------------------------- static-tier extraction
\* extractTitleFromHtml and extractBestImageFromHtml on the HTML of one item
\* page.  The page is what the regular expressions find in it: the inner text
\* of the first <h1>, of <title>, the content of the title and image <meta>
\* tags, the JSON-LD objects, the inline images.  Texts hold no markup and no
\* entity, and every image URL can be resolved against the page URL.
NoText == ""

\* Most JSON-LD objects and most inline images on a page.
MaxLd == 1
MaxInline == 1

\* An image URL: a generic placeholder (marketing.fareharbor.com/wp-content/
\* uploads/ or fh-og) or not, relative or absolute.
Img(kind, rel) == [kind |-> kind, rel |-> rel]
NoImg == Img("none", FALSE)
Generic == Img("generic", FALSE)
Real == Img("real", FALSE)
RealRelative == Img("real", TRUE)
SecondReal == Img("real2", FALSE)

\* new URL(u, pageUrl).toString()
resolveUrl(u) == [u EXCEPT !.rel = FALSE]

\* Lines 123 and 139-142.
isGenericFareharborThumb(u) == u.kind = "generic"

\* Lines 94-106; NoText for null.
extractTitleFromHtml(h) ==
    IF h.h1 # NoText THEN h.h1
    ELSE IF h.ogTitleProperty # NoText THEN h.ogTitleProperty
    ELSE IF h.ogTitleName # NoText THEN h.ogTitleName
    ELSE IF h.titleTag # NoText THEN h.titleTag
    ELSE NoText

\* Line 649.
titleOrUntitled(h) ==
    IF extractTitleFromHtml(h) # NoText THEN extractTitleFromHtml(h) ELSE "Untitled Event"

\* Lines 116-127 for one JSON-LD object: o.image || o.thumbnailUrl.
pickOf(o) == IF o.image # NoImg THEN o.image ELSE o.thumbnailUrl

\* Lines 110-131: the first object whose pick is not generic.
RECURSIVE fromJsonLd(_)
fromJsonLd(objs) ==
    IF objs = <<>> THEN NoImg
    ELSE IF pickOf(Head(objs)) # NoImg /\ ~isGenericFareharborThumb(resolveUrl(pickOf(Head(objs))))
    THEN resolveUrl(pickOf(Head(objs)))
    ELSE fromJsonLd(Tail(objs))

\* Lines 133-137: the first of the four meta lookups that finds a tag.
ogOf(h) ==
    IF h.ogImageProperty # NoImg THEN h.ogImageProperty
    ELSE IF h.ogImageName # NoImg THEN h.ogImageName
    ELSE IF h.twitterImageProperty # NoImg THEN h.twitterImageProperty
    ELSE h.twitterImageName

\* Lines 166-175: the first inline candidate that is not generic.
RECURSIVE fromInline(_)
fromInline(cs) ==
    IF cs = <<>> THEN NoImg
    ELSE IF ~isGenericFareharborThumb(Head(cs)) THEN resolveUrl(Head(cs))
    ELSE fromInline(Tail(cs))

\* Lines 108-184; NoImg for null.
extractBestImageFromHtml(h) ==
    IF fromJsonLd(h.jsonLd) # NoImg THEN fromJsonLd(h.jsonLd)
    ELSE IF ogOf(h) # NoImg /\ ~isGenericFareharborThumb(ogOf(h)) THEN resolveUrl(ogOf(h))
    ELSE IF fromInline(h.inline) # NoImg THEN fromInline(h.inline)
    ELSE IF ogOf(h) = NoImg THEN NoImg
    ELSE resolveUrl(ogOf(h))

\* The pages of the model.
LdObjects == { [image |-> a, thumbnailUrl |-> b] : a \in { NoImg, Generic, Real },
                                                   b \in { NoImg, Generic, RealRelative } }
MetaImages == { NoImg, Generic, SecondReal }
InlineImages == { Generic, Real, RealRelative }

Html(h1, titleTag, ogP, ogN, tw, ld, m1, m2, m3, m4, inline) ==
    [h1 |-> h1, titleTag |-> titleTag, ogTitleProperty |-> ogP, ogTitleName |-> ogN,
     twitterTitle |-> tw, jsonLd |-> ld,
     ogImageProperty |-> m1, ogImageName |-> m2,
     twitterImageProperty |-> m3, twitterImageName |-> m4, inline |-> inline]

HtmlPages ==
    { Html(h1, t, ogP, ogN, tw, <<>>, NoImg, NoImg, NoImg, NoImg, <<>>) :
        h1 \in { NoText, "Heading" }, t \in { NoText, "Page title" },
        ogP \in { NoText, "OG title" }, ogN \in { NoText, "OG name title" },
        tw \in { NoText, "Twitter title" } }
    \cup
    { Html("Heading", NoText, NoText, NoText, NoText, ld, m1, m2, m3, m4, inline) :
        ld \in SeqsUpTo(LdObjects, MaxLd),
        m1 \in MetaImages, m2 \in MetaImages, m3 \in MetaImages, m4 \in MetaImages,
        inline \in SeqsUpTo(InlineImages, MaxInline) }

InitExtract ==
    /\ RunIdle
    /\ TimeIdle
    /\ HookIdle
    /\ epc = "fetched"
    /\ html \in HtmlPages
    /\ pageTitle = "" /\ pageThumbnail = NoImg

\* Line 649.
ExtractTitle ==
    /\ epc = "fetched"
    /\ pageTitle' = titleOrUntitled(html)
    /\ epc' = "titled"
    /\ UNCHANGED <<html, pageThumbnail>>
    /\ UNCHANGED besidesExtract

\* Line 650.
ExtractThumbnail ==
    /\ epc = "titled"
    /\ pageThumbnail' = extractBestImageFromHtml(html)
    /\ epc' = "extracted"
    /\ UNCHANGED <<html, pageTitle>>
    /\ UNCHANGED besidesExtract

NextExtract == ExtractTitle \/ ExtractThumbnail

SpecExtract == InitExtract /\ [][NextExtract]_vars

\* ---------------------------------------------------------------- claims
InSeq(seq, e) == \E k \in DOMAIN seq : seq[k] = e

Assembled == pc \in {"finish", "done"}

\* The day of month of the date part of an event's end (of its start when it
\* has no end); year and month are the same for every date of the model.
EndDay(e) ==
    LET stamp == IF e.end # <<>> THEN e.end ELSE e.start
    IN  (stamp[9] - 48) * 10 + (stamp[10] - 48)

\* C1: in write mode the document is written if and only if the output is
\* non-empty or the empty-write override is set; an empty output without the
\* override is refused with exit code 2 and the document is left as it was;
\* a completed write leaves exactly the output (with the override, an empty
\* array) in the document.
C1_EmptyWriteGuard ==
    (pc = "done" /\ SHOULD_WRITE) =>
        /\ (written # "no") <=> (Len(out) > 0 \/ ALLOW_EMPTY_WRITE)
        /\ (Len(out) = 0 /\ ~ALLOW_EMPTY_WRITE) =>
               (exitCode = 2 /\ written = "no" /\ doc = docPre)
        /\ exitCode = 2 => (Len(out) = 0 /\ ~ALLOW_EMPTY_WRITE)
        /\ written = "yes" => doc = Document(out)

\* A refused run that had a non-empty document to protect.
C1_Witness ==
    /\ pc = "done" /\ SHOULD_WRITE /\ ~ALLOW_EMPTY_WRITE
    /\ Len(out) = 0 /\ exitCode = 2
    /\ docPre.ok /\ Len(docPre.events) > 0 /\ doc = docPre

\* C2: without --write the document is never written, whatever the path.
C2_DryRunNeverWrites ==
    ~SHOULD_WRITE => (doc = docPre /\ written = "no" /\ run = "first")

\* A finished dry run after a failed listing, merging, with something to report.
C2_Witness ==
    /\ ~SHOULD_WRITE /\ pc = "done" /\ MERGE_EXISTING
    /\ ~listing.static.ok /\ Len(uniqueItemUrls) > 0
    /\ Len(out) > 0 /\ Document(out) # doc

\* C3: a persisted event (one that is not extracted again as it stands) is in
\* the output if and only if merge mode is on and it is foreign; in overwrite
\* mode the output holds fresh events only, in merge mode fresh events and
\* foreign persisted ones only.
C3_MergeCarriesForeignOnly ==
    Assembled =>
        /\ keep = IF MERGE_EXISTING
                  THEN SelectSeq(docPre.events, LAMBDA e : ~isFareharborEvent(e))
                  ELSE <<>>
        /\ \A k \in DOMAIN keep : InSeq(out, keep[k])
        /\ ~MERGE_EXISTING => \A k \in DOMAIN out : InSeq(byKey, out[k])
        /\ \A k \in DOMAIN docPre.events :
              LET e == docPre.events[k]
              IN  ~InSeq(byKey, e) =>
                     (InSeq(out, e) <=> (MERGE_EXISTING /\ ~isFareharborEvent(e)))
        /\ \A k \in DOMAIN out :
              \/ InSeq(byKey, out[k])
              \/ MERGE_EXISTING /\ ~isFareharborEvent(out[k]) /\ InSeq(docPre.events, out[k])

\* Merging a document with a long-past manual event and an old platform
\* event: the first survives, the second does not, a fresh event is added.
C3_Witness ==
    /\ pc = "done" /\ MERGE_EXISTING /\ run = "first"
    /\ InSeq(docPre.events, ManualEarly) /\ InSeq(docPre.events, OldSync2)
    /\ InSeq(out, ManualEarly) /\ ~InSeq(out, OldSync2)
    /\ \E k \in DOMAIN out : isFareharborEvent(out[k])

\* C4: the deduplicated candidates hold one event per (url, start); it is the
\* first candidate with that pair, title, end and thumbnail included; with
\* nothing carried forward the output has no two events with the same pair.
C4_DedupFirstWins ==
    Assembled =>
        /\ \A a, b \in DOMAIN byKey :
              a # b => <<byKey[a].url, byKey[a].start>> # <<byKey[b].url, byKey[b].start>>
        /\ \A k \in DOMAIN scraped :
              \E a \in DOMAIN byKey :
                 \E first \in DOMAIN scraped :
                    /\ scraped[first].url = scraped[k].url
                    /\ scraped[first].start = scraped[k].start
                    /\ \A j \in 1..(first - 1) :
                          <<scraped[j].url, scraped[j].start>> # <<scraped[k].url, scraped[k].start>>
                    /\ byKey[a] = scraped[first]
        /\ Len(byKey) <= Len(scraped)
        /\ Len(keep) = 0 =>
              \A a, b \in DOMAIN out :
                 a # b => <<out[a].url, out[a].start>> # <<out[b].url, out[b].start>>

\* Two candidates with one (url, start) and different titles, ends and
\* thumbnails: the first is the one in the output.
C4_Witness ==
    /\ pc = "done" /\ Len(scraped) = 2 /\ Len(byKey) = 1
    /\ scraped[1].title # scraped[2].title
    /\ scraped[1].end # scraped[2].end
    /\ scraped[1].thumbnail # scraped[2].thumbnail
    /\ out = <<scraped[1]>>

\* C5 as stated: every event of non-platform URL shape passes the date
\* filter, and a platform event passes if and only if its end date is today or
\* later.
C5_ForeignAlwaysKept ==
    Assembled =>
        \A k \in DOMAIN (keep \o byKey) :
           LET e == (keep \o byKey)[k]
           IN  /\ ~isFareharborEvent(e) => InSeq(out, e)
               /\ isFareharborEvent(e) => (InSeq(out, e) <=> EndDay(e) >= today)

\* C5 amended: every carried-forward event passes the filter; a fresh event of
\* non-platform shape passes regardless of its date only when something was
\* carried forward; every other event passes if and only if its end date is
\* today or later.
C5_DateFilter ==
    Assembled =>
        /\ \A k \in DOMAIN keep : InSeq(out, keep[k])
        /\ \A k \in DOMAIN byKey :
              LET e == byKey[k]
              IN  InSeq(out, e) <=>
                     \/ ~isFareharborEvent(e) /\ Len(keep) > 0
                     \/ EndDay(e) >= today

\* Overwrite mode: a platform event ending today is kept, and a fresh event
\* of non-platform shape that ended yesterday is dropped.
C5_Witness ==
    /\ pc = "done" /\ ~MERGE_EXISTING
    /\ \E a, b \in DOMAIN byKey :
          /\ isFareharborEvent(byKey[a]) /\ EndDay(byKey[a]) = today /\ InSeq(out, byKey[a])
          /\ ~isFareharborEvent(byKey[b]) /\ EndDay(byKey[b]) = today - 1
          /\ ~InSeq(out, byKey[b])

\* C6: the output, and the document a write leaves, are in ascending order of
\* start by code unit.
C6_OutputSorted ==
    /\ Assembled =>
          \A k \in 1..(Len(out) - 1) : CodeUnitCompare(out[k].start, out[k + 1].start) <= 0
    /\ written = "yes" =>
          \A k \in 1..(Len(doc.events) - 1) :
             CodeUnitCompare(doc.events[k].start, doc.events[k + 1].start) <= 0

\* A carried-forward foreign event between two fresh platform events, from a
\* concatenation that was not in order.
C6_Witness ==
    /\ pc = "done" /\ Len(out) = 3 /\ run = "first"
    /\ isFareharborEvent(out[1]) /\ ~isFareharborEvent(out[2]) /\ isFareharborEvent(out[3])
    /\ keep \o byKey # out

\* C7 as stated: a second run with the same extraction results, flags and
\* day, started from the document the first run wrote, gives the first run's
\* output.
C7_Idempotent ==
    (run = "second" /\ Assembled /\ scraped = firstScraped /\ uniqueItemUrls = firstItems)
        => out = firstOut

\* C8: of the first range match, a marker on one side only is inherited by the
\* other, two markers are each kept, no marker rejects the match; a returned
\* range has both markers; "6 - 10PM" is 18:00 to 22:00.
C8_MeridiemInference ==
    tpc \in {"duration", "window", "built"} =>
        /\ LET p == FirstRangeMatch(text)
           IN  IF p = 0 THEN ~rangeRes.ok
               ELSE LET g == RangeGroups(text, p)
                        hasS == g.sapRaw # ""
                        hasE == g.eapRaw # ""
                    IN  /\ (hasS /\ ~hasE) =>
                              /\ rangeRes.ok
                              /\ rangeRes.start.ap = normAp(g.sapRaw)
                              /\ rangeRes.end.ap = normAp(g.sapRaw)
                        /\ (~hasS /\ hasE) =>
                              /\ rangeRes.ok
                              /\ rangeRes.start.ap = normAp(g.eapRaw)
                              /\ rangeRes.end.ap = normAp(g.eapRaw)
                        /\ (hasS /\ hasE) =>
                              /\ rangeRes.ok
                              /\ rangeRes.start.ap = normAp(g.sapRaw)
                              /\ rangeRes.end.ap = normAp(g.eapRaw)
                        /\ (~hasS /\ ~hasE) => ~rangeRes.ok
        /\ rangeRes.ok => (rangeRes.start.ap \in {"AM", "PM"} /\ rangeRes.end.ap \in {"AM", "PM"})
        /\ text = RangeText =>
              /\ to24Hour(rangeRes.start) = [hour |-> 18, minute |-> 0]
              /\ to24Hour(rangeRes.end) = [hour |-> 22, minute |-> 0]

\* "6 - 10PM" parsed and built: the start inherited PM.
C8_Witness ==
    /\ tpc = "built" /\ text = RangeText
    /\ rangeRes.ok /\ rangeRes.start.ap = "PM" /\ rangeRes.end.ap = "PM"
    /\ startIso = ymdAndTimeToIsoLocal(YmdOf(MaxDay), 18, 0)
    /\ endIso = ymdAndTimeToIsoLocal(YmdOf(MaxDay), 22, 0)

LateText == << Num(11, 30), Ap("PM"), Num(2, -1), HoursWord >>

\* C9: the end of the duration fallback, read back with to24Hour, is the start
\* plus the duration modulo 1440 minutes; start and end are stamped with the
\* same date; 6 PM + 2 hours ends 20:00, 11:30 PM + 2 hours ends 01:30 of the
\* same date, before the start.
C9_DurationWraps ==
    (tpc \in {"window", "built"} /\ durRes.ok) =>
        LET s24 == to24Hour(durRes.start)
            e24 == to24Hour(durRes.end)
            total == (s24.hour * 60 + s24.minute + durationMinutes(text)) % 1440
        IN  /\ e24.hour * 60 + e24.minute = total
            /\ e24.hour \in 0..23 /\ e24.minute \in 0..59
            /\ tpc = "built" =>
                  /\ Slice0(startIso, 10) = YmdOf(dateLabel.day)
                  /\ endIso = ymdAndTimeToIsoLocal(YmdOf(dateLabel.day), total \div 60, total % 60)
                  /\ text = DurationText => endIso = ymdAndTimeToIsoLocal(YmdOf(dateLabel.day), 20, 0)
                  /\ text = LateText =>
                        /\ endIso = ymdAndTimeToIsoLocal(YmdOf(dateLabel.day), 1, 30)
                        /\ CodeUnitCompare(endIso, startIso) < 0

\* 11:30 PM + 2 Hours, built: the end is 01:30 on the date of the start.
C9_Witness ==
    /\ tpc = "built" /\ text = LateText /\ durRes.ok
    /\ startIso = ymdAndTimeToIsoLocal(YmdOf(MaxDay), 23, 30)
    /\ endIso = ymdAndTimeToIsoLocal(YmdOf(MaxDay), 1, 30)

\* The text holds two clock times joined by a connector, at least one of them
\* with a marker.
HasExplicitRange(t) ==
    \E p \in 1..Len(t) :
       RangeAt(t, p) /\ (RangeGroups(t, p).sapRaw # "" \/ RangeGroups(t, p).eapRaw # "")

\* C10 as stated: the explicit range is used whenever the text holds one, the
\* duration only without one, the default window only without either, and a
\* window is always built.
C10_FallbackChain ==
    tpc = "built" =>
        /\ HasExplicitRange(text) => rangeRes.ok
        /\ (~HasExplicitRange(text) /\ durRes.ok) =>
              startIso = windowOf(YmdOf(dateLabel.day), durRes).start
        /\ (~HasExplicitRange(text) /\ ~durRes.ok) =>
              /\ startIso = ymdAndTimeToIsoLocal(YmdOf(dateLabel.day), 10, 0)
              /\ endIso = ymdAndTimeToIsoLocal(YmdOf(dateLabel.day), 20, 0)
        /\ startIso # NoIso /\ endIso # NoIso

\* The listing could not be resolved: the static fetch threw, or the static
\* HTML held no item URL and the browser render threw.
ListingFailed ==
    ~listing.static.ok \/ (listing.static.urls = <<>> /\ ~listing.browser.ok)

Resolved == pc \in {"merge", "items", "finish", "done"}

\* The item ids of the platform events of the document the run started from.
PersistedItemIds ==
    { docPre.events[k].url.item : k \in { j \in DOMAIN docPre.events :
         /\ docPre.events[j].url.host = "fareharbor.com"
         /\ docPre.events[j].url.company = "floridarama"
         /\ docPre.events[j].url.item # 0 } }

\* C11: a failed listing resolution is caught and the items are those of the
\* distinct item ids of the persisted platform events, none only when there is
\* no such id; the item set never exceeds 50 and has no duplicate.
C11_ListingFallback ==
    Resolved =>
        /\ Len(uniqueItemUrls) <= 50
        /\ \A a, b \in DOMAIN uniqueItemUrls : a # b => uniqueItemUrls[a] # uniqueItemUrls[b]
        /\ ListingFailed =>
              /\ { uniqueItemUrls[k] : k \in DOMAIN uniqueItemUrls } = PersistedItemIds
              /\ (uniqueItemUrls = <<>>) <=>
                    (~docPre.ok \/ \A k \in DOMAIN docPre.events :
                                      ~isFareharborEvent(docPre.events[k]))
        /\ ~ListingFailed =>
              \A k \in DOMAIN uniqueItemUrls :
                 \/ InSeq(listing.static.urls, uniqueItemUrls[k])
                 \/ listing.static.urls = <<>> /\ InSeq(listing.browser.urls, uniqueItemUrls[k])
        /\ (~ListingFailed /\ Len(listing.static.urls) > 50) => Len(uniqueItemUrls) = 50

\* A failed listing with two persisted platform events of one item: one URL.
C11_Witness ==
    /\ pc = "done" /\ ListingFailed /\ run = "first"
    /\ docPre.ok /\ Len(docPre.events) = 2
    /\ \A k \in DOMAIN docPre.events : isFareharborEvent(docPre.events[k])
    /\ Len(uniqueItemUrls) = 1

BrowserFailed(item) == item.outcome \in { "importFails", "launchFails", "contextFails", "fnFails" }

\* The anchor and label the iteration ends up with: the rendered page's when
\* the browser tier returned both, else the static tier's.
FinalAnchor(page, item) ==
    IF item.outcome = "ok" /\ page.dom.availabilityUrl # NoHref /\ page.dom.dateLabel # NoLabel
    THEN [href |-> page.dom.availabilityUrl, label |-> page.dom.dateLabel]
    ELSE [href |-> page.href, label |-> page.label]

\* C12: every iteration leaves the events of earlier items as they were and
\* moves on to the next item; a failed static fetch skips the item; a failed
\* browser tier skips it only when the static tier found no availability link,
\* otherwise the event is built from the static facts with the parsed or
\* default window; a missing link or an unparseable date label skips the item;
\* the loop ends only when all items have been visited.
C12_ItemFailuresLocal ==
    /\ [](Assembled => i = Len(uniqueItemUrls))
    /\ [][ (pc = "items" /\ i' = i + 1) =>
             LET page == PageOf(uniqueItemUrls[i'])
                 anchor == FinalAnchor(page, lastItem')
             IN  /\ pc' = "items" /\ uniqueItemUrls' = uniqueItemUrls
                 /\ \/ scraped' = scraped
                    \/ Len(scraped') = Len(scraped) + 1 /\ SubSeq(scraped', 1, Len(scraped)) = scraped
                 /\ lastItem'.pushed <=> scraped' # scraped
                 /\ ~page.fetched => scraped' = scraped
                 /\ (BrowserFailed(lastItem') /\ page.href = NoHref) => scraped' = scraped
                 /\ (BrowserFailed(lastItem') /\ page.href # NoHref
                       /\ parseDateLabelToYmd(page.label) # NoYmd) =>
                       /\ Len(scraped') = Len(scraped) + 1
                       /\ LET e == scraped'[Len(scraped')]
                              ymd == parseDateLabelToYmd(page.label)
                          IN  /\ e.url = normalizeFareharborUrl(page.href)
                              /\ e.title = IF page.title # "" THEN page.title ELSE "Untitled Event"
                              /\ e.thumbnail = page.thumbnail
                              /\ e.start = windowOf(ymd, trFromText(page.text)).start
                              /\ e.end = windowOf(ymd, trFromText(page.text)).end
                 /\ (page.fetched /\ anchor.href = NoHref) => scraped' = scraped
                 /\ (page.fetched /\ parseDateLabelToYmd(anchor.label) = NoYmd) => scraped' = scraped
                 /\ (page.fetched /\ anchor.href # NoHref
                       /\ parseDateLabelToYmd(anchor.label) # NoYmd) => scraped' # scraped
          ]_vars

\* Browser mode, items 1 and 7, the browser failing on both: item 1's event
\* was built from the static facts with the default window, and item 7, which
\* has no static availability link, was skipped with item 1's event kept.
C12_Witness ==
    /\ pc = "items" /\ USE_PLAYWRIGHT /\ uniqueItemUrls = <<1, 7>> /\ i = 2
    /\ lastItem.outcome = "fnFails" /\ ~lastItem.pushed
    /\ Len(scraped) = 1
    /\ scraped[1].title = "Untitled Event"
    /\ scraped[1].start = ymdAndTimeToIsoLocal(YmdOf(3), 10, 0)
    /\ scraped[1].end = ymdAndTimeToIsoLocal(YmdOf(3), 20, 0)

\* C13 as stated: the status is non-zero for a failed listing resolution and
\* for a refused empty write, and for nothing else.
C13_StatusListingOrEmpty ==
    pc = "done" =>
        /\ ListingFailed => exitCode # 0
        /\ (SHOULD_WRITE /\ ~ALLOW_EMPTY_WRITE /\ Len(out) = 0) => exitCode # 0
        /\ exitCode # 0 => (ListingFailed \/ (SHOULD_WRITE /\ ~ALLOW_EMPTY_WRITE /\ Len(out) = 0))

\* C13 amended: the status is 2 exactly when the empty-result guard refused
\* the write, 1 exactly when the write failed, and 0 otherwise; neither a
\* per-item failure nor a failed listing resolution sets a status: until the
\* run's last step the status is 0.
C13_StatusCodes ==
    /\ pc # "done" => exitCode = 0
    /\ pc = "done" =>
          /\ exitCode \in {0, 1, 2}
          /\ exitCode = 2 <=> (SHOULD_WRITE /\ ~ALLOW_EMPTY_WRITE /\ Len(out) = 0)
          /\ exitCode = 1 <=> written = "failed"

\* The listing failed, the items were rebuilt from the document, and the run
\* wrote its output and ended with status 0.
C13_Witness ==
    /\ pc = "done" /\ ListingFailed /\ exitCode = 0 /\ written = "yes"
    /\ Len(uniqueItemUrls) > 0 /\ Len(out) > 0

\* The token a request presents: the bearer token of Authorization, else the
\* X-Webhook-Token header.
PresentedToken(req) ==
    IF startsWith(toLowerCase(req.authorization), BearerPrefix)
    THEN trim(SliceFrom(req.authorization, 7))
    ELSE trim(req.xWebhookToken)

\* The request passes the checks that are configured.
TokenCheckPasses == env.WEBHOOK_TOKEN # <<>> => PresentedToken(request) = env.WEBHOOK_TOKEN

HmacCheckPasses ==
    env.WEBHOOK_HMAC_SECRET # <<>> =>
        \E sig \in { request.xSignature256, request.xHubSignature256 } :
           /\ sig # <<>>
           /\ request.xSignature256 # <<>> => sig = request.xSignature256
           /\ toLowerCase(sig) \in { macHexOf(env.WEBHOOK_HMAC_SECRET, request.body),
                                     Sha256Prefix \o macHexOf(env.WEBHOOK_HMAC_SECRET, request.body) }

WebhookPost == request.path = "/fareharbor/webhook" /\ request.method = "POST"

\* C14 as stated: the answer is 202, and the dispatch is requested, if and
\* only if the request is a POST to /fareharbor/webhook, its body is not over
\* the limit, and it passes every configured check; a correct bearer token
\* with no HMAC secret configured is accepted; an incorrect token gets 401
\* whatever the body; no rejected request is dispatched.
C14_WebhookAccepts ==
    wpc \in {"responded", "settled"} =>
        /\ response = 202 <=> dispatch # "none"
        /\ response = 202 <=>
              (WebhookPost /\ request.bodyBytes <= 1000000 /\ TokenCheckPasses /\ HmacCheckPasses)
        /\ (WebhookPost /\ request.bodyBytes <= 1000000 /\ env.WEBHOOK_HMAC_SECRET = <<>>
              /\ request.authorization = << 66, 101, 97, 114, 101, 114, 32 >> \o env.WEBHOOK_TOKEN)
              => response = 202
        /\ (WebhookPost /\ request.bodyBytes <= 1000000 /\ ~TokenCheckPasses) => response = 401
        /\ response \in {404, 405, 413, 401} => dispatch = "none"

\* C15 as stated: after a run, a failed write included, the document holds
\* its complete pre-run content or the complete new output.
C15_NeverPartial ==
    pc = "done" => (doc = docPre \/ doc = Document(out))

\* C19 as stated: a run reads the document at most once, and never when merge
\* mode is off.
C19_ReadAtMostOnce ==
    reads <= 1 /\ (~MERGE_EXISTING => reads = 0)

\* C19 amended: a run reads the document once when the listing resolution
\* failed and once more when merging, so at most twice and possibly with merge
\* mode off; the document is as the run found it until the run's last step.
C19_ReadsAndWrite ==
    /\ pc \in {"listing", "merge", "items", "finish", "done"} =>
          /\ reads = (IF pc # "listing" /\ ListingFailed THEN 1 ELSE 0)
                     + (IF pc \notin {"listing", "merge"} /\ MERGE_EXISTING THEN 1 ELSE 0)
          /\ reads <= 2
          /\ pc # "done" => doc = docPre
          /\ written = "yes" => pc = "done"

\* A merging run whose listing failed: two reads, then the write.
C19_Witness ==
    /\ pc = "done" /\ ListingFailed /\ MERGE_EXISTING
    /\ reads = 2 /\ written = "yes" /\ doc # docPre

\* C20 as stated: the fetch of an item begins only after the delay that ends
\* the iteration before it, whether that one produced an event or skipped.
C20_DelayBetweenFetches ==
    [][ (pc = "items" /\ i' = i + 1 /\ i >= 1) => lastItem.slept ]_vars

\* The listing was resolved without a browser, so every session of the run is
\* an item's.
ItemSessionsOnly == listing.static.ok => listing.static.urls # <<>>

\* C18 as stated: a session is opened for an item only in browser mode and
\* when the static tier lacked the availability link or a parseable time;
\* every session is closed before the next item begins and on every path, so
\* no session is open between items or after the loop, and never two at once.
C18_SessionsScoped ==
    (ItemSessionsOnly /\ pc \in {"items", "finish", "done"}) =>
        /\ sessions.open = 0
        /\ sessions.peak <= 1
        /\ (pc = "items" /\ i >= 1 /\ lastItem.outcome # "none") =>
              /\ USE_PLAYWRIGHT
              /\ \/ PageOf(uniqueItemUrls[i]).href = NoHref
                 \/ ~trFromText(PageOf(uniqueItemUrls[i]).text).ok

\* C16 as stated: the title is the first heading, else the page title
\* element, else an og:title or twitter:title meta tag, else "Untitled Event";
\* with no h1 and both a <title> and an og:title, the <title> text.
C16_TitleOrder ==
    epc \in {"titled", "extracted"} =>
        pageTitle = IF html.h1 # NoText THEN html.h1
                    ELSE IF html.titleTag # NoText THEN html.titleTag
                    ELSE IF html.ogTitleProperty # NoText THEN html.ogTitleProperty
                    ELSE IF html.ogTitleName # NoText THEN html.ogTitleName
                    ELSE IF html.twitterTitle # NoText THEN html.twitterTitle
                    ELSE "Untitled Event"

\* The first candidate of a stage that is not generic, resolved; NoImg for none.
RECURSIVE FirstNonGeneric(_)
FirstNonGeneric(cs) ==
    IF cs = <<>> THEN NoImg
    ELSE IF Head(cs).kind \notin { "none", "generic" } THEN [Head(cs) EXCEPT !.rel = FALSE]
    ELSE FirstNonGeneric(Tail(cs))

\* The candidates of the three stages, in page order.
RECURSIVE LdCandidates(_)
LdCandidates(objs) ==
    IF objs = <<>> THEN <<>>
    ELSE << Head(objs).image, Head(objs).thumbnailUrl >> \o LdCandidates(Tail(objs))

MetaCandidates(h) ==
    << h.ogImageProperty, h.ogImageName, h.twitterImageProperty, h.twitterImageName >>

\* C17 as stated: the thumbnail is the first non-generic candidate of the
\* JSON-LD stage, else of the social meta stage, else of the inline stage; a
\* generic URL is returned only when no candidate of any stage is non-generic,
\* and then it is a generic meta image; with no candidate at all, nothing.
C17_ThumbnailPrecedence ==
    epc = "extracted" =>
        LET ld == FirstNonGeneric(LdCandidates(html.jsonLd))
            meta == FirstNonGeneric(MetaCandidates(html))
            inline == FirstNonGeneric(html.inline)
        IN  /\ pageThumbnail.kind = "generic" => (ld = NoImg /\ meta = NoImg /\ inline = NoImg)
            /\ pageThumbnail =
                  IF ld # NoImg THEN ld
                  ELSE IF meta # NoImg THEN meta
                  ELSE IF inline # NoImg THEN inline
                  ELSE IF \E k \in 1..4 : MetaCandidates(html)[k].kind = "generic" THEN Generic
                  ELSE NoImg

\* The clock the window was built from: the explicit range, else the duration
\* fallback; without either the window is the default one.
UsedClocks == IF rangeRes.ok THEN rangeRes ELSE durRes

IsDigits(s, lo, hi) == \A k \in lo..hi : s[k] \in 48..57

StampHour(s) == (s[12] - 48) * 10 + (s[13] - 48)

StampMinute(s) == (s[15] - 48) * 10 + (s[16] - 48)

\* YYYY-MM-DDTHH:MM:00, nineteen characters.
FixedWidthStamp(s) ==
    /\ Len(s) = 19
    /\ IsDigits(s, 1, 4) /\ s[5] = 45 /\ IsDigits(s, 6, 7) /\ s[8] = 45
    /\ IsDigits(s, 9, 10) /\ s[11] = 84
    /\ IsDigits(s, 12, 13) /\ s[14] = 58 /\ IsDigits(s, 15, 16)
    /\ s[17] = 58 /\ s[18] = 48 /\ s[19] = 48

\* The moment a stamp of one date names, in minutes after midnight.
MinutesAfterMidnight(s) == StampHour(s) * 60 + StampMinute(s)

\* C21: every start and end timestamp built is a well-formed fixed-width
\* local datetime: to24Hour yields an hour in 0..23 and a minute in 0..59 for
\* whatever hour, minute and meridiem were parsed, start and end carry the
\* same calendar date, the string has the shape YYYY-MM-DDTHH:MM:00, and the
\* lexical order of the two agrees with their chronological order.
C21_WellFormedTimestamps ==
    tpc = "built" =>
        /\ UsedClocks.ok =>
              \A c \in { UsedClocks.start, UsedClocks.end } :
                  to24Hour(c).hour \in 0..23 /\ to24Hour(c).minute \in 0..59
        /\ FixedWidthStamp(startIso) /\ FixedWidthStamp(endIso)
        /\ StampHour(startIso) \in 0..23 /\ StampMinute(startIso) \in 0..59
        /\ StampHour(endIso) \in 0..23 /\ StampMinute(endIso) \in 0..59
        /\ Slice0(startIso, 10) = Slice0(endIso, 10)
        /\ (CodeUnitCompare(startIso, endIso) < 0)
              <=> (MinutesAfterMidnight(startIso) < MinutesAfterMidnight(endIso))

====
